---- MODULE Spec2Model ----
(***************************************************************************)
(* The process-output relay of the YouTube downloader UI:                  *)
(*   ws-server.js        the WebSocket relay (port probe, startWsServer,   *)
(*                       the clients set, broadcast)                       *)
(*   pages/api/download  the launch handler (URL and directory validation, *)
(*                       findBinary, log file, spawn, the child's data /   *)
(*                       error / close listeners)                          *)
(* Both live in src/unnamed/part_005.                                      *)
(*                                                                         *)
(* Texts are TLA+ strings.  Bytes that are not ASCII are written with      *)
(* stand-in characters: "{" is the lead byte 0xC3, "}" the continuation    *)
(* byte 0xA9 (together the UTF-8 encoding of one two-byte character,       *)
(* written "@" once decoded), and "#" is U+FFFD, the replacement character *)
(* that Buffer.toString() produces for a byte sequence that is not UTF-8.  *)
(***************************************************************************)
EXTENDS Integers, Sequences, FiniteSets, TLC

\* ------------------------------------------------------------ bounds
\* operations on the app store in one behaviour
MaxOps == 4
\* launches in one behaviour
MaxJobs == 2
\* events in one behaviour of the relay: a launch is two (the request and the
\* spawn), a data event one, a connection one
MaxEvents == 5
\* ticks of the clock
MaxTime == 1

\* ------------------------------------------------------------ strings
Undefined == "<undefined>"
NotAString == "<number>"

Char(s, i) == SubSeq(s, i, i)

StartsWithAt(s, i, p) ==
    /\ i + Len(p) - 1 <= Len(s)
    /\ SubSeq(s, i, i + Len(p) - 1) = p

StartsWith(s, p) == StartsWithAt(s, 1, p)

Contains(s, p) == \E i \in 1..(Len(s) + 1) : StartsWithAt(s, i, p)

RECURSIVE TrimLeft(_)
TrimLeft(s) ==
    IF s # "" /\ Head(s) = " " THEN TrimLeft(Tail(s)) ELSE s

RECURSIVE TrimRight(_)
TrimRight(s) ==
    IF s # "" /\ Char(s, Len(s)) = " "
    THEN TrimRight(SubSeq(s, 1, Len(s) - 1))
    ELSE s

Trim(s) == TrimRight(TrimLeft(s))

Lower == {"a","b","c","d","e","f","g","h","i","j","k","l","m",
          "n","o","p","q","r","s","t","u","v","w","x","y","z"}
Upper == {"A","B","C","D","E","F","G","H","I","J","K","L","M",
          "N","O","P","Q","R","S","T","U","V","W","X","Y","Z"}
Digit == {"0","1","2","3","4","5","6","7","8","9"}

\* the character class [a-zA-Z0-9_-] of urlPattern
IdClass == Lower \cup Upper \cup Digit \cup {"_", "-"}

IdLength == 11

\* ------------------------------------------------------------ urlPattern
\* The regular expression is run as the engine runs it: a set of positions
\* (the next character to read) is carried through the pattern's parts.
\* (x)? keeps every position and adds those reached by reading x.
ReOptional(s, P, alts) ==
    P \cup {i + Len(a) : <<i, a>> \in {q \in P \X alts : StartsWithAt(s, q[1], q[2])}}

\* (x|y|z) keeps only the positions reached by reading one alternative.
ReGroup(s, P, alts) ==
    {i + Len(a) : <<i, a>> \in {q \in P \X alts : StartsWithAt(s, q[1], q[2])}}

\* [class]{n}: n characters of the class, one after the other.
RECURSIVE ReClassTimes(_, _, _, _)
ReClassTimes(s, P, class, n) ==
    IF n = 0 THEN P
    ELSE ReClassTimes(s,
                      {i + 1 : i \in {q \in P : q <= Len(s) /\ Char(s, q) \in class}},
                      class, n - 1)

UrlSchemes == {"http://", "https://"}
UrlWww == {"www."}
UrlHosts == {"youtube.com/watch?v=", "youtu.be/", "youtube.com/embed/"}

\* The pattern with a ten-character identifier: what the handler must not be.
urlPatternTenChars(s) ==
    ReClassTimes(s, ReGroup(s, ReOptional(s, ReOptional(s, {1}, UrlSchemes), UrlWww),
                            UrlHosts),
                 IdClass, IdLength - 1) # {}

\* The pattern closed with $: nothing may follow the identifier.
urlPatternAnchoredEnd(s) ==
    (Len(s) + 1) \in
        ReClassTimes(s, ReGroup(s, ReOptional(s, ReOptional(s, {1}, UrlSchemes), UrlWww),
                                UrlHosts),
                     IdClass, IdLength)

\* /^(https?:\/\/)?(www\.)?(youtube\.com\/watch\?v=|youtu\.be\/|youtube\.com\/embed\/)[a-zA-Z0-9_-]{11}/
\* anchored at the start (^) and not at the end.
urlPatternTest(s) ==
    LET p0 == {1}
        p1 == ReOptional(s, p0, UrlSchemes)
        p2 == ReOptional(s, p1, UrlWww)
        p3 == ReGroup(s, p2, UrlHosts)
        p4 == ReClassTimes(s, p3, IdClass, IdLength)
    IN  p4 # {}

\* ------------------------------------------------------------ Buffer.toString()
\* chunk.toString() decodes the chunk's bytes as UTF-8; a byte that does not
\* belong to a complete sequence inside this chunk becomes U+FFFD.
RECURSIVE BufferToString(_)
BufferToString(bytes) ==
    IF bytes = "" THEN ""
    ELSE IF Head(bytes) = "{" /\ Len(bytes) >= 2 /\ Char(bytes, 2) = "}"
         THEN "@" \o BufferToString(SubSeq(bytes, 3, Len(bytes)))
    ELSE IF Head(bytes) \in {"{", "}"}
         THEN "#" \o BufferToString(Tail(bytes))
    ELSE Head(bytes) \o BufferToString(Tail(bytes))

\* What a write of a JavaScript string puts in the file: its UTF-8 encoding
\* ("#" stands for the three bytes of U+FFFD, which are not "{" nor "}").
RECURSIVE StringToBytes(_)
StringToBytes(text) ==
    IF text = "" THEN ""
    ELSE IF Head(text) = "@" THEN "{}" \o StringToBytes(Tail(text))
    ELSE Head(text) \o StringToBytes(Tail(text))

\* ------------------------------------------------------------ the file system
\* A file system maps the paths that exist to "dir" (a writable directory),
\* "rodir" (a directory that cannot be written to) or "file".
Home == "/home/u"
Cwd == "/repo/ui"
RepoRoot == "/repo"

Resolve(p) == IF StartsWith(p, "/") THEN p ELSE Cwd \o "/" \o p

Kind(fs, p) == IF Resolve(p) \in DOMAIN fs THEN fs[Resolve(p)] ELSE "none"

existsSync(fs, p) == Kind(fs, p) # "none"

RECURSIVE LastSlash(_, _)
LastSlash(p, i) ==
    IF i = 0 THEN 0
    ELSE IF Char(p, i) = "/" THEN i
    ELSE LastSlash(p, i - 1)

Dirname(p) ==
    LET i == LastSlash(p, Len(p))
    IN  IF i <= 1 THEN "/" ELSE SubSeq(p, 1, i - 1)

\* The directories mkdirSync(p, {recursive: true}) has to create, p last.
RECURSIVE MissingChain(_, _)
MissingChain(fs, p) ==
    IF existsSync(fs, p) \/ p = "/" THEN <<>>
    ELSE Append(MissingChain(fs, Dirname(p)), p)

\* mkdirSync(p, {recursive: true}) throws when the nearest existing ancestor
\* is not a writable directory.
MkdirThrows(fs, p) ==
    LET chain == MissingChain(fs, Resolve(p))
        base == IF chain = <<>> THEN Resolve(p) ELSE Dirname(chain[1])
    IN  IF chain = <<>> THEN Kind(fs, base) = "file"
        ELSE Kind(fs, base) # "dir"

mkdirSync(fs, p) ==
    LET chain == MissingChain(fs, Resolve(p))
        made == {chain[i] : i \in 1..Len(chain)}
    IN  [q \in DOMAIN fs \cup made |-> IF q \in made THEN "dir" ELSE fs[q]]

\* ------------------------------------------------------------ expandPath
expandPath(p) ==
    IF StartsWith(p, "~/") THEN Home \o Tail(p) ELSE p

\* ------------------------------------------------------------ validateAndCreateDirectory
\* /[<>:"|?*\x00-\x1f]/
InvalidPathChars == {"<", ">", ":", "\"", "|", "?", "*", "\t", "\n"}

HasInvalidChars(p) == \E i \in 1..Len(p) : Char(p, i) \in InvalidPathChars

\* The result object, together with the file system the call leaves behind.
validateAndCreateDirectory(fs, dirPath) ==
    LET expandedPath == expandPath(dirPath)
    IN  IF expandedPath = "" \/ Len(Trim(expandedPath)) = 0
        THEN [valid |-> FALSE, message |-> "Output path cannot be empty",
              resolvedPath |-> Undefined, fs |-> fs]
        ELSE IF HasInvalidChars(expandedPath)
        THEN [valid |-> FALSE, message |-> "Path contains invalid characters",
              resolvedPath |-> Undefined, fs |-> fs]
        ELSE IF ~existsSync(fs, expandedPath)
        THEN IF MkdirThrows(fs, expandedPath)
             THEN [valid |-> FALSE, message |-> "Failed to access directory",
                   resolvedPath |-> Undefined, fs |-> fs]
             ELSE [valid |-> TRUE, message |-> "Directory created successfully",
                   resolvedPath |-> expandedPath, fs |-> mkdirSync(fs, expandedPath)]
        ELSE IF Kind(fs, expandedPath) = "file"
        THEN [valid |-> FALSE, message |-> "Path exists but is not a directory",
              resolvedPath |-> Undefined, fs |-> fs]
        ELSE IF Kind(fs, expandedPath) = "rodir"
        THEN [valid |-> FALSE, message |-> "Directory is not writable",
              resolvedPath |-> Undefined, fs |-> fs]
        ELSE [valid |-> TRUE, message |-> "Directory is writable",
              resolvedPath |-> expandedPath, fs |-> fs]

\* ------------------------------------------------------------ findBinary
candidates ==
    << RepoRoot \o "/target/release/rust_downloader",
       RepoRoot \o "/target/release/rust-downloader",
       RepoRoot \o "/target/debug/rust_downloader",
       RepoRoot \o "/target/debug/rust-downloader" >>

RECURSIVE FirstFileFrom(_, _)
FirstFileFrom(fs, i) ==
    IF i > Len(candidates) THEN Undefined
    ELSE IF existsSync(fs, candidates[i]) /\ Kind(fs, candidates[i]) = "file"
         THEN candidates[i]
    ELSE FirstFileFrom(fs, i + 1)

\* A lookup that does not look: the first candidate, whatever is there.
firstCandidate(fs) == candidates[1]

\* A lookup that takes the first candidate that exists, file or not.
RECURSIVE FirstExistingFrom(_, _)
FirstExistingFrom(fs, i) ==
    IF i > Len(candidates) THEN Undefined
    ELSE IF existsSync(fs, candidates[i]) THEN candidates[i]
    ELSE FirstExistingFrom(fs, i + 1)

findBinaryExistsOnly(fs) == FirstExistingFrom(fs, 1)

\* null is written Undefined: the handler only tests it with !bin.
findBinary(fs) == FirstFileFrom(fs, 1)

\* ------------------------------------------------------------ state
VARIABLES
    fs,          \* the file system outside the log files
    files,       \* the log files: path -> the writes that reached the file, in order
    now,         \* Date.now()
    wsStarted,   \* startWsServer has run (wss exists)
    wsServer,    \* what require('../../ws-server') returned to the handler's module
    clients,     \* the Set `clients`, in insertion order
    readyState,  \* every connection's readyState
    received,    \* every connection's received messages, in order, each with
                 \* the listener run that sent it (job 0: the greeting)
    jobs,        \* the launches that created a log stream, in order
    nextPid,     \* the process id the operating system gives next (0: no pid)
    last,        \* the request the handler has just answered, and its response
    uncaught,    \* the errors no listener or try/catch caught
    lastRun,     \* the child listener that has just run, and its broadcast
    emitted,     \* every connection's events so far, of 'close' and 'error'
    buffered,    \* every connection's frames handed to send() and not yet
                 \* written to the network (the last ones of `received`)
    home,        \* the Home page's state (pages/index)
    modal,       \* the Settings component's state
    storage,     \* localStorage['downloaderSettings']
    store        \* the app store (client/src/store/appStore)

serverVars == <<fs, files, now, wsStarted, wsServer, clients, readyState,
                received, jobs, nextPid, last, uncaught, lastRun, emitted,
                buffered>>

uiVars == <<home, modal, storage, store>>

vars == <<serverVars, emitted, buffered, uiVars>>

Sockets == 1..MaxEvents

DefaultWsPort == 4001

\* module.exports of ws-server.js before and after startWsServer assigns it
EmptyExports == "{}"
RelayExports == "{broadcast, port, clients, wss}"

OutputsDir == RepoRoot \o "/outputs"
DefaultDir == expandPath("~/Downloads")

FsBase ==
    ( "/" :> "rodir" ) @@ ( "/tmp" :> "dir" ) @@ ( "/tmp/f" :> "file" ) @@
    ( "/etc" :> "rodir" ) @@ ( Home :> "dir" ) @@ ( DefaultDir :> "dir" ) @@
    ( RepoRoot :> "dir" ) @@ ( Cwd :> "dir" ) @@ ( OutputsDir :> "dir" ) @@
    ( (RepoRoot \o "/target") :> "dir" ) @@
    ( (RepoRoot \o "/target/release") :> "dir" ) @@
    ( (RepoRoot \o "/target/debug") :> "dir" ) @@
    ( candidates[1] :> "file" )

Without(f, ps) == [q \in DOMAIN f \ ps |-> f[q]]

\* The environments a server can start in.
FsStates ==
    { FsBase,
      \* only the last candidate is a file, the first is a directory;
      \* outputs/ and ~/Downloads do not exist yet
      (candidates[1] :> "dir") @@ (candidates[4] :> "file")
          @@ Without(FsBase, {OutputsDir, DefaultDir}),
      \* outputs/ and ~/Downloads exist and cannot be written to
      (OutputsDir :> "rodir") @@ (DefaultDir :> "rodir") @@ FsBase,
      \* nothing was built
      Without(FsBase, {candidates[1]}),
      \* outputs/ does not exist and cannot be created
      (RepoRoot :> "rodir") @@ Without(FsBase, {OutputsDir}) }

NoRequest ==
    [method |-> "", url |-> Undefined, outputDir |-> Undefined, status |-> 0,
     message |-> "", allow |-> "", pid |-> 0, logPath |-> Undefined,
     finalOutputDir |-> Undefined, spawned |-> FALSE]

\* the browser's side before any page is loaded
NoPage == "none"

NoRun ==
    [listener |-> "none", job |-> 0, seq |-> 0, bytes |-> "", text |-> "",
     logged |-> FALSE,
     called |-> FALSE, registry |-> <<>>, visited |-> <<>>, failed |-> {},
     delivered |-> {}]

\* The state once both modules are loaded; `requests` are the requests that
\* may have arrived and not been answered yet (status 0).  ws-server.js probes the port:
\* server.listen(port) throws at once for a port that is no port number
\* (YD_WS_PORT=70000), and the catch runs startWsServer(0) before require()
\* returns; otherwise startWsServer runs later, from the probe's callbacks,
\* and require() has returned the module's first, empty exports object.
\* startedAtLoad: which of the two cases the behaviours start from.
InitServer(fsStates, requests, startedAtLoad) ==
    /\ fs \in fsStates
    /\ files = << >>
    /\ now = 0
    /\ wsStarted \in startedAtLoad
    /\ wsServer = IF wsStarted THEN RelayExports ELSE EmptyExports
    /\ clients = <<>>
    /\ readyState = [c \in Sockets |-> "NEW"]
    /\ received = [c \in Sockets |-> <<>>]
    /\ jobs = <<>>
    /\ nextPid = 1
    /\ last \in requests
    /\ uncaught = {}
    /\ lastRun = NoRun
    /\ emitted = [c \in Sockets |-> {}]
    /\ buffered = [c \in Sockets |-> 0]

\* The server with no page open in any browser.
InitWith(fsStates, requests, startedAtLoad) ==
    /\ InitServer(fsStates, requests, startedAtLoad)
    /\ home = NoPage /\ modal = NoPage /\ storage = NoPage /\ store = NoPage

Init == InitWith({FsBase}, {NoRequest}, BOOLEAN)

\* ------------------------------------------------------------ ws-server.js
\* startWsServer(listenPort); `module.exports = ...` replaces the module's
\* exports object and leaves alone the object require() returned earlier.
startWsServer(listenPort) ==
    /\ listenPort \in {0, DefaultWsPort}
    /\ wsStarted' = TRUE
    /\ UNCHANGED wsServer

\* server.listen's callback: the port is free, startWsServer(port)
ProbeListening ==
    /\ ~wsStarted
    /\ startWsServer(DefaultWsPort)
    /\ last' = NoRequest /\ lastRun' = NoRun
    /\ UNCHANGED <<fs, files, now, clients,
                   readyState, received, jobs, nextPid, uncaught, emitted, buffered, uiVars>>

\* server.on('error'): the port is in use, startWsServer(0)
ProbeError ==
    /\ ~wsStarted
    /\ startWsServer(0)
    /\ last' = NoRequest /\ lastRun' = NoRun
    /\ UNCHANGED <<fs, files, now, clients,
                   readyState, received, jobs, nextPid, uncaught, emitted, buffered, uiVars>>

SetAdd(set, c) ==
    IF \E i \in 1..Len(set) : set[i] = c THEN set ELSE Append(set, c)

SetDelete(set, c) == SelectSeq(set, LAMBDA x : x # c)

Elements(set) == {set[i] : i \in 1..Len(set)}

Message(data, j, listener, seq) ==
    [data |-> data, job |-> j, listener |-> listener, seq |-> seq]

Greeting == "{\"type\":\"connected\",\"message\":\"Connected to YouTube downloader WS\"}"

\* A connection listener that registers the socket and sends no greeting.
ConnectionNoGreeting(ws) ==
    /\ wsStarted
    /\ readyState[ws] = "NEW"
    /\ \A other \in Sockets : other < ws => readyState[other] # "NEW"
    /\ readyState' = [readyState EXCEPT ![ws] = "OPEN"]
    /\ clients' = SetAdd(clients, ws)
    /\ last' = NoRequest /\ lastRun' = NoRun
    /\ UNCHANGED <<fs, files, now, wsStarted, wsServer, received, jobs, nextPid,
                   uncaught, emitted, buffered, uiVars>>

\* A connection listener that, after the greeting, sends the newcomer what
\* was broadcast for the first job so far.
ConnectionReplay(ws) ==
    /\ wsStarted
    /\ readyState[ws] = "NEW"
    /\ \A other \in Sockets : other < ws => readyState[other] # "NEW"
    /\ readyState' = [readyState EXCEPT ![ws] = "OPEN"]
    /\ clients' = SetAdd(clients, ws)
    /\ received' = [received EXCEPT ![ws] =
           <<Message(Greeting, 0, "connection", 0)>> \o
           (IF jobs = <<>> THEN <<>>
            ELSE [i \in 1..Len(jobs[1].sent) |->
                      Message(jobs[1].sent[i], 1, "replay", i)])]
    /\ buffered' = [buffered EXCEPT ![ws] = @ + 1]
    /\ last' = NoRequest /\ lastRun' = NoRun
    /\ UNCHANGED <<fs, files, now, wsStarted,
                   wsServer, jobs, nextPid, uncaught, emitted, uiVars>>

\* wss.on('connection'); connections are numbered in the order they arrive
Connection(ws) ==
    /\ wsStarted
    /\ readyState[ws] = "NEW"
    /\ \A other \in Sockets : other < ws => readyState[other] # "NEW"
    /\ readyState' = [readyState EXCEPT ![ws] = "OPEN"]
    /\ clients' = SetAdd(clients, ws)
    /\ received' = [received EXCEPT ![ws] = Append(@, Message(Greeting, 0, "connection", 0))]
    /\ buffered' = [buffered EXCEPT ![ws] = @ + 1]
    /\ last' = NoRequest /\ lastRun' = NoRun
    /\ UNCHANGED <<fs, files, now, wsStarted,
                   wsServer, jobs, nextPid, uncaught, emitted, uiVars>>

\* The closing handshake has begun (either side): readyState is CLOSING and
\* no event has been emitted yet.
Closing(ws) ==
    /\ readyState[ws] = "OPEN"
    /\ readyState' = [readyState EXCEPT ![ws] = "CLOSING"]
    /\ last' = NoRequest /\ lastRun' = NoRun
    /\ UNCHANGED <<fs, files, now, wsStarted, wsServer, clients, received, jobs, nextPid, uncaught, emitted, buffered, uiVars>>

\* ws.on('close')
WsClose(ws) ==
    /\ readyState[ws] \in {"OPEN", "CLOSING"}
    /\ readyState' = [readyState EXCEPT ![ws] = "CLOSED"]
    /\ clients' = SetDelete(clients, ws)
    /\ emitted' = [emitted EXCEPT ![ws] = @ \cup {"close"}]
    /\ buffered' = [buffered EXCEPT ![ws] = 0]
    /\ last' = NoRequest /\ lastRun' = NoRun
    /\ UNCHANGED <<fs, files, now, wsStarted, wsServer, received, jobs, nextPid,
                   uncaught, uiVars>>

\* An error listener that leaves the registry alone.
WsErrorKeeps(ws) ==
    /\ readyState[ws] \in {"OPEN", "CLOSING"}
    /\ readyState' = [readyState EXCEPT ![ws] = "CLOSING"]
    /\ emitted' = [emitted EXCEPT ![ws] = @ \cup {"error"}]
    /\ last' = NoRequest /\ lastRun' = NoRun
    /\ UNCHANGED <<fs, files, now, wsStarted, wsServer, clients, received, jobs,
                   nextPid, uncaught, buffered, uiVars>>

\* ws.on('error'): ws sets readyState to CLOSING before it emits 'error'
WsError(ws) ==
    /\ readyState[ws] \in {"OPEN", "CLOSING"}
    /\ readyState' = [readyState EXCEPT ![ws] = "CLOSING"]
    /\ clients' = SetDelete(clients, ws)
    /\ emitted' = [emitted EXCEPT ![ws] = @ \cup {"error"}]
    /\ last' = NoRequest /\ lastRun' = NoRun
    /\ UNCHANGED <<fs, files, now, wsStarted, wsServer, received, jobs, nextPid,
                   uncaught, buffered, uiVars>>

\* The loop without the try/catch around send: the first send that throws
\* ends the pass.
RECURSIVE BroadcastAbortOnThrow(_, _, _, _, _, _)
BroadcastAbortOnThrow(set, i, rs, data, throwers, st) ==
    IF i > Len(set) THEN st
    ELSE LET c == set[i]
             v == [st EXCEPT !.visited = Append(@, c)]
         IN  IF rs[c] = "OPEN" /\ c \in throwers
             THEN [v EXCEPT !.failed = @ \cup {c}]
             ELSE BroadcastAbortOnThrow(set, i + 1, rs, data, throwers,
                      IF rs[c] = "OPEN"
                      THEN [v EXCEPT !.delivered = @ \cup {c},
                                     !.received[c] = Append(@, data)]
                      ELSE [v EXCEPT !.failed = @ \cup {c}])

\* One pass of for (const c of clients) from position i on: st collects who
\* was visited, who got the data and whose delivery failed.
\* data is the message: its text and the listener run it comes from.
RECURSIVE BroadcastFrom(_, _, _, _, _, _)
BroadcastFrom(set, i, rs, data, throwers, st) ==
    IF i > Len(set) THEN st
    ELSE LET c == set[i]
             v == [st EXCEPT !.visited = Append(@, c)]
         IN  BroadcastFrom(set, i + 1, rs, data, throwers,
                 IF rs[c] = "OPEN"
                 THEN IF c \in throwers
                      THEN [v EXCEPT !.failed = @ \cup {c}]
                      ELSE [v EXCEPT !.delivered = @ \cup {c},
                                     !.received[c] = Append(@, data)]
                 ELSE [v EXCEPT !.failed = @ \cup {c}])

\* A broadcast whose loop starts at the second subscriber.
broadcastSkipFirst(set, rs, rcv, msg, throwers) ==
    BroadcastFrom(set, 2, rs, msg, throwers,
                  [visited |-> <<>>, delivered |-> {}, failed |-> {}, received |-> rcv])

\* broadcast(msg) for a string msg: data = msg.toString() = msg
broadcast(set, rs, rcv, msg, throwers) ==
    BroadcastFrom(set, 1, rs, msg, throwers,
                  [visited |-> <<>>, delivered |-> {}, failed |-> {}, received |-> rcv])

\* The network takes the oldest frame a connection has queued.
Flush(ws) ==
    /\ readyState[ws] = "OPEN"
    /\ buffered[ws] > 0
    /\ buffered' = [buffered EXCEPT ![ws] = @ - 1]
    /\ last' = NoRequest /\ lastRun' = NoRun
    /\ UNCHANGED <<fs, files, now, wsStarted, wsServer, clients, readyState,
                   received, jobs, nextPid, uncaught, emitted, uiVars>>

Tick ==
    /\ now < MaxTime
    /\ now' = now + 1
    /\ last' = NoRequest /\ lastRun' = NoRun
    /\ UNCHANGED <<fs, files, wsStarted, wsServer,
                   clients, readyState, received, jobs, nextPid, uncaught, emitted, buffered, uiVars>>

\* ------------------------------------------------------------ the log stream
\* One write that reached a log file.
LogEntry(j, kind, seq, bytes) == [job |-> j, kind |-> kind, seq |-> seq, bytes |-> bytes]

FileOf(fl, path) == IF path \in DOMAIN fl THEN fl[path] ELSE <<>>

\* fs.createWriteStream(path, {flags: 'a'}): the file is created if absent
\* and kept as it is if present.
OpenAppend(fl, path) == (path :> FileOf(fl, path)) @@ fl

\* A write that puts the bytes in front of the file's content.
outStreamPrepend(fl, job, entry) ==
    IF job.logOk /\ ~job.ended
    THEN [fl EXCEPT ![job.logPath] = <<entry>> \o @]
    ELSE fl

\* outStream.write(x) on job's stream: the bytes are appended to the file,
\* unless the file could not be opened or the stream has ended.
outStreamWrite(fl, job, entry) ==
    IF job.logOk /\ ~job.ended
    THEN [fl EXCEPT ![job.logPath] = Append(@, entry)]
    ELSE fl

\* write() after end() makes the stream emit 'error' (write after end),
\* unless the stream was already destroyed by an earlier error.
WriteAfterEnd(job) == job.ended /\ ~job.destroyed

\* ------------------------------------------------------------ handler
Methods == {"POST", "GET", "PUT"}

Respond(req, status, message) ==
    [NoRequest EXCEPT !.method = req.method, !.url = req.url,
                      !.outputDir = req.outputDir,
                      !.status = status, !.message = message]

MsgMethod == "Method not allowed. Use POST."
MsgMissingUrl == "Missing or invalid url in request body"
MsgInvalidUrl == "Invalid YouTube URL format"
MsgInvalidDir == "Invalid output directory: "
MsgDefaultDir == "Failed to use default directory: "
MsgNoBinary == "Rust binary not found. Build the project first with: cargo build --release"
MsgStarted == "Download started successfully"
MsgFailed == "Failed to start download: "

\* spawn(bin, args, ...): the child starts; or the operating system refuses
\* (ENOENT, EACCES: the child object is returned without a pid and emits
\* 'error' later); or spawn itself throws (any other errno).
SpawnOutcomes == {"started", "error", "throws"}

LogPathAt(ts) == OutputsDir \o "/download-" \o ToString(ts) \o ".log"

Header(j, url, bin, dir, ts) ==
    << LogEntry(j, "header", 1,
                "Starting download for " \o url \o " at " \o ToString(ts) \o "\n"),
       LogEntry(j, "header", 2, "Binary: " \o bin \o "\n"),
       LogEntry(j, "header", 3, "Output directory: " \o dir \o "\n\n"),
       LogEntry(j, "header", 4,
                "Command: " \o bin \o " " \o url \o " --output " \o dir \o "\n\n") >>

RECURSIVE WriteAll(_, _, _, _)
WriteAll(fl, job, entries, i) ==
    IF i > Len(entries) THEN fl
    ELSE WriteAll(outStreamWrite(fl, job, entries[i]), job, entries, i + 1)

\* outputDir && typeof outputDir === 'string' && outputDir.trim().length > 0
Given(outputDir) ==
    outputDir \notin {Undefined, NotAString, ""} /\ Len(Trim(outputDir)) > 0

\* What the handler leaves behind when it returns before the try block:
\* the file system f and the response.
Returned(f, resp) ==
    [fs |-> f, files |-> files, jobs |-> jobs, nextPid |-> nextPid, resp |-> resp]

\* The try block once outputs/ exists (fs2): the log stream, its header, spawn,
\* the listeners' registration and the response.
HandleSpawn(req, outcome, finalOutputDir, bin, fs2) ==
    LET ts == now
        logPath == LogPathAt(ts)
        logOk == Kind(fs2, OutputsDir) = "dir" \/ logPath \in DOMAIN files
        j == Len(jobs) + 1
        pid == IF outcome = "started" THEN nextPid ELSE 0
        job == [url |-> req.url, bin |-> bin, outputDir |-> finalOutputDir,
                pid |-> pid, logPath |-> logPath, logOk |-> logOk,
                destroyed |-> FALSE, ended |-> FALSE,
                phase |-> CASE outcome = "started" -> "running"
                            [] outcome = "error" -> "failed"
                            [] OTHER -> "unspawned",
                nOut |-> 0, nErr |-> 0, sent |-> <<>>]
        opened == IF logOk THEN OpenAppend(files, logPath) ELSE files
    IN  [fs |-> fs2,
         files |-> WriteAll(opened, job, Header(j, req.url, bin, finalOutputDir, ts), 1),
         jobs |-> Append(jobs, job),
         nextPid |-> IF outcome = "started" THEN nextPid + 1 ELSE nextPid,
         resp |-> IF outcome = "throws"
                  THEN [Respond(req, 500, MsgFailed \o "spawn")
                           EXCEPT !.logPath = logPath]
                  ELSE [Respond(req, 202, MsgStarted)
                           EXCEPT !.pid = pid, !.logPath = logPath,
                                  !.finalOutputDir = finalOutputDir,
                                  !.spawned = TRUE]]

\* From `if (!bin)` to the creation of outputs/; fs1 is the file system the
\* directory validation left.
HandleBinary(req, finalOutputDir, fs1, bin) ==
    IF bin = Undefined
    THEN {Returned(fs1, Respond(req, 500, MsgNoBinary))}
    ELSE IF ~existsSync(fs1, OutputsDir) /\ MkdirThrows(fs1, OutputsDir)
    THEN {Returned(fs1, Respond(req, 500, MsgFailed \o "mkdir"))}
    ELSE {HandleSpawn(req, outcome, finalOutputDir, bin,
                      IF existsSync(fs1, OutputsDir) THEN fs1
                      ELSE mkdirSync(fs1, OutputsDir)) : outcome \in SpawnOutcomes}

\* The handler without its first statement: every method is served.
HandleAnyMethod(req) ==
    IF req.url \in {Undefined, NotAString, ""}
    THEN {Returned(fs, Respond(req, 400, MsgMissingUrl))}
    ELSE IF ~urlPatternTest(req.url)
    THEN {Returned(fs, Respond(req, 400, MsgInvalidUrl))}
    ELSE {Returned(validateAndCreateDirectory(fs, Trim(req.outputDir)).fs,
                   Respond(req, 202, MsgStarted))}

\* From the directory validation's result to findBinary().
HandleDirectory(req, validation) ==
    IF ~validation.valid
    THEN {Returned(fs, Respond(req, IF Given(req.outputDir) THEN 400 ELSE 500,
                               (IF Given(req.outputDir) THEN MsgInvalidDir
                                ELSE MsgDefaultDir) \o validation.message))}
    ELSE HandleBinary(req, validation.resolvedPath, validation.fs,
                      findBinary(validation.fs))

\* What the handler can do with one request: the response, and the file
\* system, files, jobs and pid counter it leaves behind; one result for
\* every outcome of spawn when the handler gets that far, one result otherwise.
Handle(req) ==
    IF req.method # "POST"
    THEN {Returned(fs, [Respond(req, 405, MsgMethod) EXCEPT !.allow = "POST"])}
    ELSE IF req.url \in {Undefined, NotAString, ""}
    THEN {Returned(fs, Respond(req, 400, MsgMissingUrl))}
    ELSE IF ~urlPatternTest(req.url)
    THEN {Returned(fs, Respond(req, 400, MsgInvalidUrl))}
    ELSE HandleDirectory(req,
             IF Given(req.outputDir)
             THEN validateAndCreateDirectory(fs, Trim(req.outputDir))
             ELSE validateAndCreateDirectory(fs, DefaultDir))

\* The handler's effect r on the server's state.
AnswerServer(r) ==
    /\ Len(r.jobs) <= MaxJobs
    /\ fs' = r.fs
    /\ files' = r.files
    /\ jobs' = r.jobs
    /\ nextPid' = r.nextPid
    /\ last' = r.resp
    /\ lastRun' = NoRun
    /\ UNCHANGED <<now, wsStarted, wsServer, clients, readyState,
                   received, uncaught, emitted, buffered>>

\* The handler's effect r on the state, for a request that does not come
\* from the page.
Answer(r) == AnswerServer(r) /\ UNCHANGED uiVars

\* export default async function handler(req, res)
Handler(req) == \E r \in Handle(req) : Answer(r)

\* ------------------------------------------------------------ the child's listeners
ChunkData == {"a", "{"}

\* try { wsServer.broadcast(text) } catch (e) { /* ignore */ }
\* With the empty exports object wsServer.broadcast is undefined: the call
\* throws a TypeError, which the catch swallows, and nobody is visited.
TryBroadcast(text, j, listener, seq, throwers) ==
    IF wsServer = RelayExports
    THEN broadcast(clients, readyState, received, Message(text, j, listener, seq), throwers)
             @@ [called |-> TRUE]
    ELSE [visited |-> <<>>, delivered |-> {}, failed |-> {},
          received |-> received, called |-> FALSE]

\* c.send(data) hands the frame to the socket, which keeps it until the
\* network has taken it; send neither waits nor looks at what is queued.
Queued(buf, delivered) ==
    [c \in Sockets |-> IF c \in delivered THEN buf[c] + 1 ELSE buf[c]]

OpenClients == {c \in Elements(clients) : readyState[c] = "OPEN"}

RunOf(listener, j, seq, bytes, text, logged, b) ==
    [listener |-> listener, job |-> j, seq |-> seq, bytes |-> bytes, text |-> text,
     logged |-> logged, called |-> b.called,
     registry |-> IF b.called THEN clients ELSE <<>>,
     visited |-> b.visited, failed |-> b.failed, delivered |-> b.delivered]

RECURSIVE ChunksFrom(_)
ChunksFrom(j) ==
    IF j > Len(jobs) THEN 0 ELSE jobs[j].nOut + jobs[j].nErr + ChunksFrom(j + 1)

\* the data events so far, over all jobs
ChunksSoFar == ChunksFrom(1)

\* the events so far: two for each launch, one for each data event and each
\* connection
EventsSoFar ==
    2 * Len(jobs) + ChunksSoFar + Cardinality({c \in Sockets : readyState[c] # "NEW"})

\* child.stdout.on('data') and child.stderr.on('data')
OnData(j, stream, chunk, throwers) ==
    LET job == jobs[j]
        seq == IF stream = "stdout" THEN job.nOut + 1 ELSE job.nErr + 1
        text == BufferToString(chunk)
        b == TryBroadcast(text, j, stream, seq, throwers)
    IN  /\ job.phase = "running"
        /\ EventsSoFar < MaxEvents
        /\ files' = outStreamWrite(files, job, LogEntry(j, stream, seq, chunk))
        /\ received' = b.received
        /\ buffered' = Queued(buffered, b.delivered)
        /\ jobs' = [jobs EXCEPT ![j].nOut = IF stream = "stdout" THEN seq ELSE @,
                                ![j].nErr = IF stream = "stderr" THEN seq ELSE @,
                                ![j].sent = IF b.called THEN Append(@, text) ELSE @]
        /\ lastRun' = RunOf(stream, j, seq, chunk, text, job.logOk /\ ~job.ended, b)
        /\ last' = NoRequest
        /\ UNCHANGED <<fs, now, wsStarted, wsServer, clients, readyState,
                       nextPid, uncaught, emitted, uiVars>>

StdoutData(j, chunk, throwers) == OnData(j, "stdout", chunk, throwers)

StderrData(j, chunk, throwers) == OnData(j, "stderr", chunk, throwers)

\* String(err) of the error a refused spawn emits
SpawnErrorString(job) == "Error: spawn " \o job.bin \o " EACCES"

\* child.on('error')
ChildError(j, throwers) ==
    LET job == jobs[j]
        line == "\nSpawn error: " \o SpawnErrorString(job) \o "\n"
        text == "ERROR: " \o SpawnErrorString(job)
        b == TryBroadcast(text, j, "error", 1, throwers)
    IN  /\ job.phase = "failed"
        /\ files' = outStreamWrite(files, job, LogEntry(j, "error", 1, line))
        /\ received' = b.received
        /\ buffered' = Queued(buffered, b.delivered)
        /\ jobs' = [jobs EXCEPT ![j].phase = "errored",
                                ![j].ended = TRUE,
                                ![j].sent = IF b.called THEN Append(@, text) ELSE @]
        /\ lastRun' = RunOf("error", j, 1, line, text, job.logOk /\ ~job.ended, b)
        /\ last' = NoRequest
        /\ UNCHANGED <<fs, now, wsStarted, wsServer, clients, readyState,
                       nextPid, uncaught, emitted, uiVars>>

\* The exit codes of a child that ran; a refused spawn closes with the errno.
ExitCodes == {0, 1}
SpawnErrno == -13

\* child.on('close'): after the child's exit and the end of its pipes, and
\* right after 'error' when the spawn was refused.
ChildClose(j, code) ==
    LET job == jobs[j]
        line == "\nProcess exited with code " \o ToString(code) \o "\n"
    IN  /\ \/ job.phase = "running" /\ code \in ExitCodes
           \/ job.phase = "errored" /\ code = SpawnErrno
        /\ files' = outStreamWrite(files, job, LogEntry(j, "close", 1, line))
        /\ uncaught' = IF WriteAfterEnd(job)
                       THEN uncaught \cup {[job |-> j, error |-> "ERR_STREAM_WRITE_AFTER_END"]}
                       ELSE uncaught
        /\ jobs' = [jobs EXCEPT ![j].phase = "closed",
                                ![j].ended = TRUE,
                                ![j].destroyed = @ \/ WriteAfterEnd(job)]
        /\ lastRun' = [NoRun EXCEPT !.listener = "close", !.job = j, !.seq = 1, !.bytes = line,
                                    !.logged = job.logOk /\ ~job.ended]
        /\ last' = NoRequest
        /\ UNCHANGED <<fs, now, wsStarted, wsServer, clients, readyState,
                       received, nextPid, emitted, buffered, uiVars>>

\* The log file could not be opened: the stream emits 'error', and the
\* handler registered no listener for it.
LogOpenError(j) ==
    LET job == jobs[j]
    IN  /\ ~job.logOk
        /\ ~job.destroyed
        /\ uncaught' = uncaught \cup {[job |-> j, error |-> "EACCES"]}
        /\ jobs' = [jobs EXCEPT ![j].destroyed = TRUE]
        /\ last' = NoRequest /\ lastRun' = NoRun
        /\ UNCHANGED <<fs, files, now, wsStarted, wsServer, clients, readyState, received, nextPid, emitted, buffered, uiVars>>

\* ------------------------------------------------------------ the Settings component and the Home page
\* SettingsData, by two of its fields; the other four are handled the same way.
defaultSettings == [downloadPath |-> "~/Downloads", preferredQuality |-> "highest"]

Paths == {"~/Downloads", "/tmp/x", "."}
Qualities == {"highest", "720p"}

SettingsValues == [downloadPath : Paths, preferredQuality : Qualities]

\* what localStorage can hold under 'downloaderSettings': nothing, or a string
Null == "null"

JSONField(o, f) == "\"" \o f \o "\":\"" \o o[f] \o "\""

\* JSON.stringify of an object with some of the fields of SettingsData
JSONstringify(o) ==
    IF DOMAIN o = {"downloadPath", "preferredQuality"}
    THEN "{" \o JSONField(o, "downloadPath") \o "," \o JSONField(o, "preferredQuality") \o "}"
    ELSE IF DOMAIN o = {"downloadPath"} THEN "{" \o JSONField(o, "downloadPath") \o "}"
    ELSE IF DOMAIN o = {"preferredQuality"} THEN "{" \o JSONField(o, "preferredQuality") \o "}"
    ELSE "{}"

\* the objects whose text JSON.parse is given here
JSONObjects ==
    SettingsValues \cup [{"downloadPath"} -> Paths] \cup [{"preferredQuality"} -> Qualities]

\* JSON.parse(text) throws for a text that is no JSON
JSONparseThrows(text) == \A o \in JSONObjects : JSONstringify(o) # text

JSONparse(text) == CHOOSE o \in JSONObjects : JSONstringify(o) = text

\* { ...prev, ...parsedSettings }
Spread(prev, over) ==
    [f \in DOMAIN prev \cup DOMAIN over |-> IF f \in DOMAIN over THEN over[f] ELSE prev[f]]

\* process.env.HOME || process.env.USERPROFILE || '~' in the browser, where
\* neither variable is defined
BrowserHome == "~"

\* path.replace('~', home) for a path that starts with ~
expandedPathOf(path) ==
    IF StartsWith(path, "~") THEN BrowserHome \o Tail(path) ELSE path

\* Home and Settings right after the first render: both hold defaultSettings
\* (Settings copies currentSettings into its own state when it mounts), and
\* the effect that reads localStorage has not run yet.
\* subs: the submissions (calls of handleDownload that got past the path check).
\* completedBy: the submission whose timer set the status to 'completed'.
\* captured: the settings in handleSave's closure.  touched: the draft was
\* edited since the modal was opened.
HomeMounted(settings, isClient) ==
    [isClient |-> isClient, status |-> "idle", progress |-> 0, settings |-> settings,
     showSettings |-> FALSE, subs |-> <<>>, completedBy |-> 0]

SettingsMounted ==
    [settings |-> defaultSettings, isSaving |-> FALSE, captured |-> defaultSettings,
     touched |-> FALSE]

\* useEffect(() => { setIsClient(true); ... }, []) of Home
LoadSettings ==
    /\ ~home.isClient
    /\ home' = [home EXCEPT
           !.isClient = TRUE,
           !.settings = IF storage # Null /\ ~JSONparseThrows(storage)
                        THEN Spread(@, JSONparse(storage))
                        ELSE @]
    /\ UNCHANGED <<serverVars, modal, storage, store>>

\* setShowSettings(true), from the page's two Settings buttons
OpenSettings ==
    /\ home.isClient
    /\ ~home.showSettings
    /\ home' = [home EXCEPT !.showSettings = TRUE]
    /\ modal' = [modal EXCEPT !.touched = FALSE]
    /\ UNCHANGED <<serverVars, storage, store>>

\* the path input, setToHome, clearPath, handleFolderSelect
EditPath(p) ==
    /\ home.showSettings
    /\ modal' = [modal EXCEPT !.settings = Spread(@, [downloadPath |-> p]),
                              !.touched = TRUE]
    /\ UNCHANGED <<serverVars, home, storage, store>>

\* the quality select
EditQuality(q) ==
    /\ home.showSettings
    /\ modal' = [modal EXCEPT !.settings = Spread(@, [preferredQuality |-> q]),
                              !.touched = TRUE]
    /\ UNCHANGED <<serverVars, home, storage, store>>

\* onClose: Cancel, the cross, a click on the backdrop
Cancel ==
    /\ home.showSettings
    /\ home' = [home EXCEPT !.showSettings = FALSE]
    /\ UNCHANGED <<serverVars, modal, storage, store>>

\* handleSave up to its await
handleSave ==
    /\ home.showSettings
    /\ ~modal.isSaving
    /\ modal' = [modal EXCEPT !.isSaving = TRUE, !.captured = modal.settings]
    /\ UNCHANGED <<serverVars, home, storage, store>>

\* handleSave after its await: setItem, onSettingsChange, onClose
handleSaveDone ==
    /\ modal.isSaving
    /\ storage' = JSONstringify(modal.captured)
    /\ home' = [home EXCEPT !.settings = modal.captured, !.showSettings = FALSE]
    /\ modal' = [modal EXCEPT !.isSaving = FALSE]
    /\ UNCHANGED <<serverVars, store>>

Submission(url, outputDir) ==
    [url |-> url, outputDir |-> outputDir, phase |-> "validating", timer |-> FALSE,
     failed |-> FALSE]

\* handleDownload up to its first await; the form calls it only for a url
\* that passes the schema, and the submit button is disabled while the status
\* is 'validating' or 'downloading'.
handleDownload(url) ==
    LET path == IF home.settings.downloadPath # "" THEN home.settings.downloadPath
                ELSE "~/Downloads"
        expandedPath == expandedPathOf(path)
    IN  /\ home.isClient
        /\ ~home.showSettings
        /\ urlPatternTest(url)
        /\ home.status \notin {"validating", "downloading"}
        /\ Len(home.subs) < MaxJobs
        /\ home' =
              IF Len(Trim(path)) > 0 /\ HasInvalidChars(expandedPath)
              THEN [home EXCEPT !.status = "error"]
              ELSE IF Len(Trim(path)) > 0 /\ expandedPath \in {".", "..", ""}
              THEN [home EXCEPT !.status = "error", !.showSettings = TRUE]
              ELSE [home EXCEPT !.status = "validating",
                                !.subs = Append(@, Submission(url, home.settings.downloadPath))]
        /\ modal' = IF home'.showSettings THEN [modal EXCEPT !.touched = FALSE] ELSE modal
        /\ UNCHANGED <<serverVars, storage, store>>

\* handleDownload from the end of validateUrl to the call of fetch: the
\* status is 'queued', the progress 0, and the interval timer runs
validateUrlDone(i) ==
    /\ home.subs[i].phase = "validating"
    /\ home' = [home EXCEPT !.status = "queued", !.progress = 0,
                            !.subs[i].phase = "fetching", !.subs[i].timer = TRUE]
    /\ UNCHANGED <<serverVars, modal, storage, store>>

\* one run of the interval's callback of submission i
ProgressTick(i) ==
    /\ home.subs[i].timer
    /\ home' = IF home.progress >= 100
               THEN [home EXCEPT !.subs[i].timer = FALSE, !.status = "completed",
                                 !.completedBy = i, !.progress = 100]
               ELSE [home EXCEPT !.progress = @ + 10]
    /\ UNCHANGED <<serverVars, modal, storage, store>>

\* the response to fetch('/api/download') of submission i: the handler's answer
FetchAnswered(i) ==
    /\ home.subs[i].phase = "fetching"
    /\ \E r \in Handle([method |-> "POST", url |-> home.subs[i].url,
                        outputDir |-> home.subs[i].outputDir]) :
           /\ AnswerServer(r)
           /\ home' = IF r.resp.status \in 200..299
                      THEN [home EXCEPT !.subs[i].phase = "answered"]
                      ELSE [home EXCEPT !.subs[i].phase = "answered",
                                        !.subs[i].failed = TRUE, !.status = "error"]
    /\ UNCHANGED <<modal, storage, store>>

\* fetch rejects: the server cannot be reached
FetchRejected(i) ==
    /\ home.subs[i].phase = "fetching"
    /\ home' = [home EXCEPT !.subs[i].phase = "answered", !.subs[i].failed = TRUE,
                            !.status = "error"]
    /\ UNCHANGED <<serverVars, modal, storage, store>>

\* ------------------------------------------------------------ the app store
\* .slice(-100)
LogLimit == 100

\* the objects given to addLog; id stands for the entry's timestamp: the
\* number of the addition, over the life of the store
LogOf(level, message, id) ==
    [level |-> level, message |-> message, source |-> "app", id |-> id]

\* The store after create(): downloadProgress is undefined (defined = FALSE,
\* no field has a value).  Of DownloadProgress the fields percentage, status
\* and stage are kept; speed, eta, downloaded and total go with percentage.
\* added, running, setterUsed, lastOp and ops are not in the store: the number
\* of entries ever added, whether a startDownload has run with no
\* completeDownload after it, whether isDownloading was written by
\* setDownloading, the last operation with its arguments, and the number of
\* operations so far.
NoProgress ==
    [defined |-> FALSE, percentage |-> Undefined, status |-> Undefined,
     stage |-> Undefined]

NoOp == [op |-> "none", success |-> FALSE, error |-> Undefined]

StoreCreated ==
    [isDownloading |-> FALSE, downloadProgress |-> NoProgress, currentStep |-> "",
     logs |-> <<>>, added |-> 0, running |-> FALSE, setterUsed |-> FALSE,
     lastOp |-> NoOp, ops |-> 0]

\* [...state.logs, entry].slice(0, 100): the first hundred are kept
addLogKeepsFirst(st, level, message) ==
    LET all == Append(st.logs, LogOf(level, message, st.added + 1))
    IN  [st EXCEPT !.logs = SubSeq(all, 1, IF Len(all) > LogLimit THEN LogLimit ELSE Len(all)),
                   !.added = @ + 1]

\* addLog(entry): [...state.logs, {...entry, timestamp}].slice(-100)
addLog(st, level, message) ==
    LET all == Append(st.logs, LogOf(level, message, st.added + 1))
    IN  [st EXCEPT !.logs = IF Len(all) > LogLimit
                            THEN SubSeq(all, Len(all) - LogLimit + 1, Len(all))
                            ELSE all,
                   !.added = @ + 1]

clearLogs(st) == [st EXCEPT !.logs = <<>>]

startDownload(st, url, enableWallpaper) ==
    LET set == [st EXCEPT !.isDownloading = TRUE,
                          !.downloadProgress =
                              [defined |-> TRUE, percentage |-> "0",
                               status |-> "downloading", stage |-> "Initializing..."],
                          !.currentStep = "Starting download...",
                          !.logs = <<>>]
        first == addLog(set, "info", "Starting download for: " \o url)
    IN  IF enableWallpaper
        THEN addLog(first, "info", "Wallpaper installation enabled")
        ELSE first

\* { ...get().downloadProgress!, status, stage }: an undefined
\* downloadProgress spreads as no fields
SpreadProgress(progress, status, stage) ==
    [progress EXCEPT !.defined = TRUE, !.status = status, !.stage = stage]

CompleteSuccess(st) ==
    addLog([st EXCEPT !.isDownloading = FALSE,
                      !.downloadProgress =
                          SpreadProgress(@, "completed", "Download completed successfully!"),
                      !.currentStep = "Completed!"],
           "success", "Download completed successfully")

\* error || 'Download failed'
ErrorText(error) == IF error \in {Undefined, ""} THEN "Download failed" ELSE error

CompleteFailure(st, error) ==
    addLog([st EXCEPT !.isDownloading = FALSE,
                      !.downloadProgress = SpreadProgress(@, "error", ErrorText(error)),
                      !.currentStep = "Failed"],
           "error", ErrorText(error))

\* A completeDownload that takes the success branch whatever it is given.
completeDownloadAsSuccess(st, success, error) == CompleteSuccess(st)

completeDownload(st, success, error) ==
    IF success THEN CompleteSuccess(st) ELSE CompleteFailure(st, error)

setDownloading(st, downloading) == [st EXCEPT !.isDownloading = downloading]

setDownloadProgress(st, progress) == [st EXCEPT !.downloadProgress = progress]

\* One operation on the store: st is the store the operation leaves.
StoreStep(st, op) ==
    /\ store.ops < MaxOps
    /\ store' = [st EXCEPT !.ops = store.ops + 1, !.lastOp = op]
    /\ UNCHANGED <<serverVars, home, modal, storage>>

AddLog(level, message) ==
    StoreStep(addLog(store, level, message), [NoOp EXCEPT !.op = "addLog"])

ClearLogs == StoreStep(clearLogs(store), [NoOp EXCEPT !.op = "clearLogs"])

StartDownload(url, enableWallpaper) ==
    StoreStep([startDownload(store, url, enableWallpaper) EXCEPT !.running = TRUE],
              [NoOp EXCEPT !.op = "startDownload"])

CompleteDownload(success, error) ==
    StoreStep([completeDownload(store, success, error) EXCEPT !.running = FALSE],
              [op |-> "completeDownload", success |-> success, error |-> error])

SetDownloading(downloading) ==
    StoreStep([setDownloading(store, downloading) EXCEPT !.setterUsed = TRUE],
              [NoOp EXCEPT !.op = "setDownloading"])

SetDownloadProgress ==
    StoreStep(setDownloadProgress(store, NoProgress),
              [NoOp EXCEPT !.op = "setDownloadProgress"])

\* ------------------------------------------------------------ specifications
ValidUrl == "https://youtu.be/dQw4w9WgXcQ"
InvalidUrl == "https://example.com/not-a-video"
ShortIdUrl == "https://youtu.be/dQw4w9WgXc"

Requests(methods, urls, dirs) ==
    {[method |-> m, url |-> u, outputDir |-> d] : m \in methods, u \in urls, d \in dirs}

\* The relay: launches of one valid request, the child's output and end, the
\* subscribers' connections.
RelayRequests == Requests({"POST"}, {ValidUrl}, {""})

Next ==
    \/ ProbeListening
    \/ ProbeError
    \/ \E ws \in Sockets : EventsSoFar < MaxEvents /\ Connection(ws)
    \/ \E ws \in Sockets : Closing(ws)
    \/ \E ws \in Sockets : WsClose(ws)
    \/ \E ws \in Sockets : WsError(ws)
    \/ \E req \in RelayRequests : EventsSoFar + 1 < MaxEvents /\ Handler(req)
    \/ \E j \in 1..Len(jobs), chunk \in ChunkData, throwers \in SUBSET OpenClients :
           StdoutData(j, chunk, throwers)
    \/ \E j \in 1..Len(jobs), chunk \in ChunkData, throwers \in SUBSET OpenClients :
           StderrData(j, chunk, throwers)
    \/ \E j \in 1..Len(jobs), throwers \in SUBSET OpenClients : ChildError(j, throwers)
    \/ \E j \in 1..Len(jobs), code \in ExitCodes \cup {SpawnErrno} : ChildClose(j, code)

Spec == Init /\ [][Next]_vars

\* The relay with the network's side of every connection: a frame handed to
\* send() stays queued until the network takes it.  (In Spec no frame is
\* ever counted as taken.)
NextSlow ==
    \/ Next
    \/ \E ws \in Sockets : Flush(ws)

SpecSlow == Init /\ [][NextSlow]_vars

\* The launch handler: every kind of request in every environment, with the
\* clock running; the children's events and the subscribers are left out.
LaunchRequests ==
    Requests({"POST"}, {ValidUrl}, {"", "/tmp/x", "/etc/x"})
        \cup Requests({"POST"}, {InvalidUrl, ShortIdUrl, Undefined}, {"/tmp/x"})
        \cup Requests({"GET", "PUT"}, {ValidUrl, Undefined}, {"/tmp/x"})

InitLaunch == InitWith(FsStates, {NoRequest}, {FALSE})

NextLaunch ==
    \/ \E req \in LaunchRequests : Handler(req)
    \/ Tick
    \/ \E j \in 1..Len(jobs) : LogOpenError(j)

SpecLaunch == InitLaunch /\ [][NextLaunch]_vars

\* URL validation: one request per behaviour, its URL drawn from every
\* combination of the parts below; the handler answers it.
UrlPartScheme == {"", "http://", "https://", "ftp://", "//"}
UrlPartWww == {"", "www.", "m."}
UrlPartHost == {"youtube.com/watch?v=", "youtu.be/", "youtube.com/embed/",
                "youtube.com/v/", "example.com/watch?v="}
UrlPartId == {"dQw4w9WgXc", "dQw4w9WgXcQ", "dQw4w9WgXcQ1", "dQw4w!WgXcQ", "a_b-c_d-e_f"}
UrlPartTail == {"", "&t=1"}

UrlInputs ==
    {sc \o w \o h \o id \o t : sc \in UrlPartScheme, w \in UrlPartWww,
         h \in UrlPartHost, id \in UrlPartId, t \in UrlPartTail}
    \cup {"not a url", "", Undefined, NotAString, " " \o ValidUrl,
          "HTTPS://youtu.be/dQw4w9WgXcQ", "see " \o ValidUrl, InvalidUrl}

Pending(req) ==
    [NoRequest EXCEPT !.method = req.method, !.url = req.url,
                      !.outputDir = req.outputDir]

RequestOf(l) == [method |-> l.method, url |-> l.url, outputDir |-> l.outputDir]

InitUrl ==
    InitWith({FsBase}, {Pending(r) : r \in Requests({"POST"}, UrlInputs, {""})}, {FALSE})

NextUrl ==
    last.status = 0 /\ last.method # "" /\ Handler(RequestOf(last))

SpecUrl == InitUrl /\ [][NextUrl]_vars

\* Executable resolution: the server starts with nothing, a directory or a
\* regular file at each of the four candidate paths, and answers launches.
BinaryFsStates ==
    {[p \in DOMAIN FsBase \cup Elements(candidates) |->
         IF \E i \in 1..Len(candidates) : candidates[i] = p
         THEN kinds[CHOOSE i \in 1..Len(candidates) : candidates[i] = p]
         ELSE FsBase[p]] :
     kinds \in [1..Len(candidates) -> {"none", "dir", "file"}]}

InitBinary == InitWith(BinaryFsStates, {NoRequest}, {FALSE})

NextBinary == \E req \in RelayRequests : Handler(req)

SpecBinary == InitBinary /\ [][NextBinary]_vars

\* The Settings modal: the page loads with nothing, a broken text or saved
\* settings (whole or partial) in localStorage; the user opens, edits,
\* cancels and saves.
StoredAtLoad ==
    {Null, "{broken",
     JSONstringify([downloadPath |-> "/tmp/x", preferredQuality |-> "720p"]),
     JSONstringify([downloadPath |-> "/tmp/x"])}

InitSettings ==
    /\ InitServer({FsBase}, {NoRequest}, {FALSE})
    /\ home = HomeMounted(defaultSettings, FALSE)
    /\ modal = SettingsMounted
    /\ storage \in StoredAtLoad
    /\ store = NoPage

NextSettings ==
    \/ LoadSettings
    \/ OpenSettings
    \/ \E p \in Paths \cup {""} : EditPath(p)
    \/ \E q \in Qualities : EditQuality(q)
    \/ Cancel
    \/ handleSave
    \/ handleSaveDone

SpecSettings == InitSettings /\ [][NextSettings]_vars

\* A download from the page: the server has the executable or not, the page
\* loads its settings and submits the form; the timer ticks and the handler
\* answers in any order.
InitDownload ==
    /\ InitServer({FsBase, Without(FsBase, {candidates[1]})}, {NoRequest}, {FALSE})
    /\ home = HomeMounted(defaultSettings, FALSE)
    /\ modal = SettingsMounted
    /\ storage \in {Null, JSONstringify([downloadPath |-> "/tmp/x"]),
                     JSONstringify([downloadPath |-> "."])}
    /\ store = NoPage

NextDownload ==
    \/ LoadSettings
    \/ \E url \in {ValidUrl, InvalidUrl} : handleDownload(url)
    \/ \E i \in 1..Len(home.subs) : validateUrlDone(i)
    \/ \E i \in 1..Len(home.subs) : ProgressTick(i)
    \/ \E i \in 1..Len(home.subs) : FetchAnswered(i)
    \/ \E i \in 1..Len(home.subs) : FetchRejected(i)

SpecDownload == InitDownload /\ [][NextDownload]_vars

\* The app store: it has taken some addLog calls before (none, or enough to
\* be one or two short of the limit, or at the limit), and takes MaxOps
\* operations more.
\* what n calls of addLog leave, for n up to the limit
AfterAddLogs(st, n) ==
    [st EXCEPT !.logs = [i \in 1..n |-> LogOf("info", "earlier", i)], !.added = n]

InitStore ==
    /\ InitServer({FsBase}, {NoRequest}, {FALSE})
    /\ home = NoPage /\ modal = NoPage /\ storage = NoPage
    /\ store \in {AfterAddLogs(StoreCreated, n) :
                      n \in {0, LogLimit - 2, LogLimit - 1, LogLimit}}

NextStore ==
    \/ \E level \in {"info", "warning"} : AddLog(level, "note")
    \/ ClearLogs
    \/ \E enableWallpaper \in BOOLEAN : StartDownload(ValidUrl, enableWallpaper)
    \/ \E success \in BOOLEAN, error \in {Undefined, "", "boom"} :
           CompleteDownload(success, error)
    \/ \E downloading \in BOOLEAN : SetDownloading(downloading)
    \/ SetDownloadProgress

SpecStore == InitStore /\ [][NextStore]_vars

\* The end of a job: launches into a given directory in every environment,
\* the log stream's failure to open, and the child's 'error' and 'close'.
FinishRequests == Requests({"POST"}, {ValidUrl}, {"/tmp/x"})

NextFinish ==
    \/ \E req \in FinishRequests : Handler(req)
    \/ \E j \in 1..Len(jobs) : LogOpenError(j)
    \/ \E j \in 1..Len(jobs) : ChildError(j, {})
    \/ \E j \in 1..Len(jobs), code \in ExitCodes \cup {SpawnErrno} : ChildClose(j, code)

SpecFinish == InitLaunch /\ [][NextFinish]_vars

\* ------------------------------------------------------------ claims
\* The accepted pattern, as the claims word it: an optional http:// or
\* https://, an optional www., one of the three host forms, then eleven
\* characters of [a-zA-Z0-9_-]; whatever follows is not looked at.
AcceptedUrl(u) ==
    /\ u \notin {Undefined, NotAString}
    /\ \E sc \in {"", "http://", "https://"}, w \in {"", "www."},
          h \in {"youtube.com/watch?v=", "youtu.be/", "youtube.com/embed/"} :
           LET p == sc \o w \o h
           IN  /\ Len(u) >= Len(p) + 11
               /\ SubSeq(u, 1, Len(p)) = p
               /\ \A k \in 1..11 :
                      Char(u, Len(p) + k) \in
                          Lower \cup Upper \cup Digit \cup {"_", "-"}

Answered == last.status # 0

InvalidInput == last.status = 400 /\ last.message \in {MsgMissingUrl, MsgInvalidUrl}

LogEntriesOf(j) ==
    LET f == FileOf(files, jobs[j].logPath)
    IN  SelectSeq(f, LAMBDA e : e.job = j)

\* C1: a launch is answered 202 only if the child was started: a 202 carries
\* a positive process id and belongs to a child whose spawn was not refused.
C1_StartedOnlyIfSpawned ==
    last.status = 202 =>
        /\ last.pid > 0
        /\ jobs[Len(jobs)].phase = "running"

\* C2: a request whose URL fails validation is answered InvalidInput (400)
\* and changes nothing: no process, no log file, no directory; and every
\* launch on record, at any time, is a launch of an accepted URL.
C2_InvalidUrlNoEffect ==
    /\ [][ (last'.status # 0 /\ last'.method = "POST" /\ ~AcceptedUrl(last'.url))
             => /\ last'.status = 400
                /\ last'.message \in {MsgMissingUrl, MsgInvalidUrl}
                /\ last'.pid = 0 /\ last'.logPath = Undefined
                /\ UNCHANGED <<fs, files, jobs, nextPid>> ]_vars
    /\ [](\A j \in 1..Len(jobs) : AcceptedUrl(jobs[j].url))
    /\ [](\A path \in DOMAIN files : \A i \in 1..Len(files[path]) :
              files[path][i].job \in 1..Len(jobs))

C2_Witness ==
    /\ last.status = 400
    /\ last.url = ShortIdUrl
    /\ Len(jobs) = 1
    /\ DOMAIN files # {}

\* C3: the handler fails with InvalidInput exactly for the URLs that do not
\* match the accepted pattern.
C3_InvalidInputIffNoMatch ==
    Answered /\ last.method = "POST" => (InvalidInput <=> ~AcceptedUrl(last.url))

C3_Witness ==
    /\ last.url = "https://www.youtube.com/watch?v=dQw4w9WgXc&t=1"
    /\ InvalidInput

NoBinaryAnywhere(f) == \A i \in 1..Len(candidates) : Kind(f, candidates[i]) = "none"

\* C4 as stated: with no executable at any candidate path, a launch with a
\* valid URL fails with BinaryNotFound (500), creating no log and no process.
C4_NoBinaryAlwaysBinaryNotFound ==
    [][ (last'.status # 0 /\ last'.method = "POST" /\ AcceptedUrl(last'.url)
            /\ NoBinaryAnywhere(fs))
          => /\ last'.status = 500 /\ last'.message = MsgNoBinary
             /\ UNCHANGED <<files, jobs, nextPid>> ]_vars

DirectoryAccepted(f, outputDir) ==
    IF Given(outputDir)
    THEN validateAndCreateDirectory(f, Trim(outputDir)).valid
    ELSE validateAndCreateDirectory(f, DefaultDir).valid

\* C4 amended: with no executable at any candidate path, a launch with a
\* valid URL creates no log and no process, and fails with BinaryNotFound
\* (500) when its output directory is accepted, and otherwise with the
\* directory's failure.
C4_NoBinaryAfterDirectory ==
    [][ (last'.status # 0 /\ last'.method = "POST" /\ AcceptedUrl(last'.url)
            /\ NoBinaryAnywhere(fs))
          => /\ UNCHANGED <<files, jobs, nextPid>>
             /\ last'.pid = 0 /\ last'.logPath = Undefined
             /\ IF DirectoryAccepted(fs, last'.outputDir)
                THEN last'.status = 500 /\ last'.message = MsgNoBinary
                ELSE last'.status \in {400, 500}
                     /\ \/ StartsWith(last'.message, MsgInvalidDir)
                        \/ StartsWith(last'.message, MsgDefaultDir) ]_vars

C4_Witness ==
    /\ last.status = 500
    /\ last.message = MsgNoBinary
    /\ last.outputDir = "/tmp/x"
    /\ NoBinaryAnywhere(fs)
    /\ jobs = <<>> /\ DOMAIN files = {}

Streams == {"stdout", "stderr"}

Increasing(entries) ==
    \A i \in 1..(Len(entries) - 1) : entries[i].seq < entries[i + 1].seq

\* C5: within one job and one stream the chunks are in arrival order (seq is
\* the number of the data event on its stream) in every log file and in what
\* every subscriber received.
C5_ArrivalOrder ==
    \A j \in 1..Len(jobs), stream \in Streams :
        /\ \A path \in DOMAIN files :
               Increasing(SelectSeq(files[path],
                                    LAMBDA e : e.job = j /\ e.kind = stream))
        /\ \A ws \in Sockets :
               Increasing(SelectSeq(received[ws],
                                    LAMBDA m : m.job = j /\ m.listener = stream))

C5_Witness ==
    \E path \in DOMAIN files, ws \in Sockets :
        /\ Len(SelectSeq(files[path], LAMBDA e : e.job = 1 /\ e.kind = "stdout")) = 2
        /\ Len(SelectSeq(received[ws], LAMBDA m : m.job = 1 /\ m.listener = "stdout")) = 2
        /\ files[path][Len(files[path]) - 1].bytes # files[path][Len(files[path])].bytes

\* texts[i..] can be found, in order, inside entries[k..]: every text's bytes
\* lie within one entry's bytes.
RECURSIVE FoundInOrder(_, _, _, _)
FoundInOrder(texts, i, entries, k) ==
    IF i > Len(texts) THEN TRUE
    ELSE IF k > Len(entries) THEN FALSE
    ELSE IF Contains(entries[k].bytes, StringToBytes(texts[i]))
         THEN FoundInOrder(texts, i + 1, entries, k + 1)
    ELSE FoundInOrder(texts, i, entries, k + 1)

\* C6: in every reachable state the texts broadcast for a job are found, in
\* order, in what was appended to that job's log.
C6_BroadcastWithinLog ==
    \A j \in 1..Len(jobs) : FoundInOrder(jobs[j].sent, 1, LogEntriesOf(j), 1)

TerminalLines(j) == SelectSeq(LogEntriesOf(j), LAMBDA e : e.kind \in {"error", "close"})

\* C7: when 'error' and then 'close' fire for one job, the log gets at most
\* one terminal line, nothing is written to the log after it was ended and
\* no error is raised.
C7_FinalizeIdempotent ==
    /\ \A j \in 1..Len(jobs) : Len(TerminalLines(j)) <= 1
    /\ lastRun.listener = "close" => lastRun.logged
    /\ \A e \in uncaught : e.error # "ERR_STREAM_WRITE_AFTER_END"

\* C8: when a delivery fails during a chunk's broadcast (a subscriber that is
\* not open, or whose send throws), the data listener raises nothing, the
\* chunk is appended to the job's log, and every other registered subscriber
\* receives the chunk.
C8_DeliveryFailureContained ==
    [][ (lastRun'.listener \in Streams /\ lastRun'.failed # {})
          => LET j == lastRun'.job
                 path == jobs[j].logPath
             IN  /\ uncaught' = uncaught
                 /\ files'[path] = Append(files[path],
                        LogEntry(j, lastRun'.listener, lastRun'.seq, lastRun'.bytes))
                 /\ \A c \in Elements(clients) \ lastRun'.failed :
                        received'[c] = Append(received[c],
                            Message(lastRun'.text, j, lastRun'.listener, lastRun'.seq))
                 /\ \A c \in Sockets \ Elements(clients) :
                        received'[c] = received[c] ]_vars

C8_Witness ==
    /\ lastRun.listener \in Streams
    /\ lastRun.logged
    /\ \E c \in lastRun.failed : readyState[c] = "OPEN"
    /\ lastRun.delivered # {}
    /\ \E i \in 1..Len(lastRun.visited) :
           lastRun.visited[i] \in lastRun.failed
               /\ \E k \in (i + 1)..Len(lastRun.visited) :
                      lastRun.visited[k] \in lastRun.delivered

\* C9: a subscriber whose delivery failed during a broadcast is no longer in
\* the registry when the listener returns.
C9_FailedSubscriberRemoved ==
    lastRun.called => lastRun.failed \cap Elements(clients) = {}

\* C10: one call of broadcast with N subscribers in the registry visits each
\* of them exactly once (a subscriber that is not open counts as a failed
\* attempt), so that attempts = N, and delivers to at most N.
C10_OneAttemptEach ==
    lastRun.called =>
        /\ Len(lastRun.visited) = Len(lastRun.registry)
        /\ \A c \in Elements(lastRun.registry) :
               Cardinality({i \in 1..Len(lastRun.visited) : lastRun.visited[i] = c}) = 1
        /\ lastRun.delivered \cup lastRun.failed = Elements(lastRun.registry)
        /\ lastRun.delivered \cap lastRun.failed = {}
        /\ Cardinality(lastRun.delivered) <= Len(lastRun.registry)

C10_Witness ==
    /\ lastRun.called
    /\ Len(lastRun.registry) = 2
    /\ Cardinality(lastRun.delivered) = 2

HeaderOf(j) == SelectSeq(LogEntriesOf(j), LAMBDA e : e.kind = "header")

\* C11: when a data listener has run for a chunk, the chunk is the last entry
\* of the job's log, after the job's four header lines, and every subscriber
\* that is registered and open (and whose send did not throw) has the chunk's
\* text as the last message it received.
C11_ChunkReachesOpenSubscribers ==
    lastRun.listener \in Streams =>
        LET j == lastRun.job
            log == FileOf(files, jobs[j].logPath)
        IN  /\ Len(log) > 0
            /\ log[Len(log)] = LogEntry(j, lastRun.listener, lastRun.seq, lastRun.bytes)
            /\ Len(HeaderOf(j)) = 4
            /\ \A c \in OpenClients \ lastRun.failed :
                   /\ Len(received[c]) > 0
                   /\ received[c][Len(received[c])] =
                          Message(lastRun.text, j, lastRun.listener, lastRun.seq)

\* header lines first, and nothing after an exit-code line
Layout(entries) ==
    \A i, k \in 1..Len(entries) :
        i < k => /\ entries[k].kind = "header" => entries[i].kind = "header"
                 /\ entries[i].kind # "close"

\* C12: every log file has the layout header, output, trailer: the header
\* lines precede every chunk and nothing follows the exit-code line.
C12_HeaderOutputTrailer ==
    \A path \in DOMAIN files : Layout(files[path])

\* C13: two distinct successful launches (a child with a process id) have
\* distinct log files, and the log of a successful launch holds no line of
\* another successful launch.
C13_SeparateLogs ==
    \A i \in 1..Len(jobs) :
        jobs[i].pid > 0 =>
            /\ \A k \in 1..Len(jobs) :
                   (k # i /\ jobs[k].pid > 0) => jobs[k].logPath # jobs[i].logPath
            /\ \A n \in 1..Len(FileOf(files, jobs[i].logPath)) :
                   LET owner == FileOf(files, jobs[i].logPath)[n].job
                   IN  jobs[owner].pid > 0 => owner = i

\* C14: no launch is answered 202 with a process id, and no child has a
\* process id, when the job's log file could not be created.
C14_NoStartWithoutLog ==
    /\ (last.status = 202 /\ last.pid > 0) => jobs[Len(jobs)].logOk
    /\ \A j \in 1..Len(jobs) : jobs[j].pid > 0 => jobs[j].logOk

\* C15: the handler answers in the step that spawns the child, before any of
\* the child's output has been taken (a job just answered has no data events
\* yet), and every chunk that arrives afterwards is appended to the log and
\* passed to the relay's broadcast.
C15_ResponseBeforeOutput ==
    /\ last.status = 202 =>
           jobs[Len(jobs)].nOut = 0 /\ jobs[Len(jobs)].nErr = 0
    /\ lastRun.listener \in Streams => lastRun.logged /\ lastRun.called

\* C16: a launch with a valid URL whose output directory is rejected (cannot
\* be created, not a directory, not writable) is answered 400, for a given
\* directory and for the default one.
C16_DirectoryUnwritableIs400 ==
    [][ (last'.status # 0 /\ last'.method = "POST" /\ AcceptedUrl(last'.url)
            /\ ~DirectoryAccepted(fs, last'.outputDir))
          => last'.status = 400 ]_vars

\* C17: a request whose method is not POST is answered 405 with Allow: POST
\* and leaves the file system, the log files, the jobs and the pid counter
\* as they were.
C17_NonPostNoEffect ==
    [][ (last'.status # 0 /\ last'.method # "POST")
          => /\ last'.status = 405
             /\ last'.allow = "POST"
             /\ last'.message = MsgMethod
             /\ UNCHANGED <<fs, files, jobs, nextPid>> ]_vars

C17_Witness ==
    /\ last.method = "GET"
    /\ last.url = ValidUrl
    /\ last.status = 405
    /\ "/tmp/x" \notin DOMAIN fs
    /\ Len(jobs) = 1

IsGreeting(m) == m.listener = "connection" /\ m.data = Greeting

\* C18: the first message every connected subscriber has received is the
\* greeting, it has received the greeting once, and so every chunk it has
\* received comes after the greeting.
C18_GreetingFirstOnce ==
    \A ws \in Sockets :
        readyState[ws] # "NEW" =>
            /\ Len(received[ws]) >= 1
            /\ IsGreeting(received[ws][1])
            /\ \A i \in 2..Len(received[ws]) : ~IsGreeting(received[ws][i])

C18_Witness ==
    \E ws \in Sockets :
        /\ Len(received[ws]) = 3
        /\ IsGreeting(received[ws][1])
        /\ received[ws][2].listener \in Streams
        /\ received[ws][3].listener \in Streams

\* The four formats the README lists, with eleven-character identifiers.
DocumentedFormats ==
    {prefix \o id :
        prefix \in {"https://www.youtube.com/watch?v=", "https://youtu.be/",
                    "https://www.youtube.com/embed/", "https://www.youtube.com/v/"},
        id \in {"dQw4w9WgXcQ", "a_b-c_d-e_f"}}

\* C19: no request whose URL has one of the four documented formats is
\* answered 'Invalid YouTube URL format'.
C19_DocumentedFormatsAccepted ==
    (Answered /\ last.method = "POST" /\ last.url \in DocumentedFormats)
        => last.message # MsgInvalidUrl

\* C20: after the error listener has run, the error's description has been
\* passed to the relay's broadcast, it is the last entry of the job's log,
\* and the log is closed.
C20_SpawnErrorForwarded ==
    lastRun.listener = "error" =>
        LET j == lastRun.job
            log == FileOf(files, jobs[j].logPath)
        IN  /\ lastRun.called
            /\ Contains(lastRun.text, SpawnErrorString(jobs[j]))
            /\ Len(log) > 0
            /\ log[Len(log)].job = j
            /\ log[Len(log)].kind = "error"
            /\ Contains(log[Len(log)].bytes, SpawnErrorString(jobs[j]))
            /\ jobs[j].ended

\* the summary line the close listener writes for an exit code
ExitLine(code) == "\nProcess exited with code " \o ToString(code) \o "\n"

\* C21: a job whose child was started (it has a process id) and has closed
\* has the exit-code summary line as the last of its entries in its log, the
\* line names the exit code, and the job's log stream has been ended.
C21_ExitSummaryAndClosed ==
    \A j \in 1..Len(jobs) :
        (jobs[j].pid > 0 /\ jobs[j].phase = "closed") =>
            LET log == LogEntriesOf(j)
            IN  /\ Len(log) > 0
                /\ log[Len(log)].kind = "close"
                /\ \E code \in ExitCodes : log[Len(log)].bytes = ExitLine(code)
                /\ jobs[j].ended

\* C22: the registry holds exactly the connections that have connected and
\* have emitted neither 'close' nor 'error'; a connection that has emitted one
\* of them receives nothing more; and when a connection that has emitted one
\* emits the other, the registry stays as it is and nothing is raised.
C22_RegistryExact ==
    /\ [](Elements(clients) =
              {ws \in Sockets : readyState[ws] # "NEW" /\ emitted[ws] = {}})
    /\ [][ \A ws \in Sockets :
               emitted[ws] # {} =>
                   /\ received'[ws] = received[ws]
                   /\ emitted'[ws] # emitted[ws]
                          => clients' = clients /\ uncaught' = uncaught ]_vars

C22_Witness ==
    /\ \E ws \in Sockets : emitted[ws] = {"close", "error"}
    /\ \E ws \in Sockets : emitted[ws] = {} /\ Len(received[ws]) = 2
    /\ lastRun.called
    /\ lastRun.delivered # {}

\* C23: a connection has received nothing before it connects; on connecting
\* it receives the greeting and nothing else; and whatever it receives later
\* is the text of the listener run of that very step, a data event that had
\* not happened before the step.
C23_NoHistory ==
    /\ [](\A ws \in Sockets : readyState[ws] = "NEW" => received[ws] = <<>>)
    /\ [][ \A ws \in Sockets :
               /\ (readyState[ws] = "NEW" /\ readyState'[ws] # "NEW")
                      => received'[ws] = <<Message(Greeting, 0, "connection", 0)>>
               /\ (readyState[ws] # "NEW" /\ received'[ws] # received[ws])
                      => LET j == lastRun'.job
                         IN  /\ lastRun'.listener \in Streams \cup {"error"}
                             /\ received'[ws] = Append(received[ws],
                                    Message(lastRun'.text, j, lastRun'.listener,
                                            lastRun'.seq))
                             /\ lastRun'.listener = "stdout"
                                    => lastRun'.seq = jobs[j].nOut + 1
                             /\ lastRun'.listener = "stderr"
                                    => lastRun'.seq = jobs[j].nErr + 1
                             /\ lastRun'.listener = "error"
                                    => jobs[j].phase = "failed" ]_vars

C23_Witness ==
    \E ws \in Sockets :
        /\ Len(jobs) = 1
        /\ Len(jobs[1].sent) = 2
        /\ Len(received[ws]) = 2
        /\ IsGreeting(received[ws][1])
        /\ received[ws][2].data = jobs[1].sent[2]
        /\ received[ws][2].seq = 2

\* a subscriber that has not kept up: a chunk sent to it is still queued
Slow(ws) ==
    /\ buffered[ws] > 0
    /\ received[ws][Len(received[ws])].listener \in Streams

\* C24: a data listener appends its chunk to the log in its own step, whatever
\* the subscribers have queued, and queues nothing more for a subscriber that
\* still has a chunk queued: the frame is dropped for that subscriber.
C24_SlowSubscriberDropsFrames ==
    [][ lastRun'.listener \in Streams =>
            /\ files'[jobs[lastRun'.job].logPath] =
                   Append(files[jobs[lastRun'.job].logPath],
                          LogEntry(lastRun'.job, lastRun'.listener, lastRun'.seq,
                                   lastRun'.bytes))
            /\ \A ws \in Sockets : Slow(ws) => buffered'[ws] <= buffered[ws] ]_vars

FileCandidates(f) == {i \in 1..Len(candidates) : Kind(f, candidates[i]) = "file"}

IsReleasePath(p) == Contains(p, "/target/release/")

\* C25: a launch with a valid URL and an accepted directory is answered
\* 'binary not found' exactly when no candidate is a regular file; otherwise
\* the launch uses the first candidate, in the list's order, that is a regular
\* file, candidates that are directories being passed over; and that is a
\* release path whenever some release path is a regular file.
C25_FirstRegularFile ==
    (Answered /\ last.method = "POST" /\ AcceptedUrl(last.url)
        /\ DirectoryAccepted(fs, last.outputDir)) =>
        IF FileCandidates(fs) = {}
        THEN last.status = 500 /\ last.message = MsgNoBinary
        ELSE LET bin == jobs[Len(jobs)].bin
                 first == CHOOSE i \in FileCandidates(fs) :
                              \A k \in FileCandidates(fs) : i <= k
             IN  /\ last.message # MsgNoBinary
                 /\ bin = candidates[first]
                 /\ (\E i \in FileCandidates(fs) : IsReleasePath(candidates[i]))
                        => IsReleasePath(bin)

C25_Witness ==
    /\ last.status = 202
    /\ Kind(fs, candidates[1]) = "dir"
    /\ Kind(fs, candidates[2]) = "none"
    /\ Kind(fs, candidates[3]) = "file"
    /\ Kind(fs, candidates[4]) = "file"
    /\ jobs[Len(jobs)].bin = candidates[3]

\* C27: whenever a data listener or the error listener has run and the relay
\* has started, the object the handler got from require('../../ws-server') is
\* the exports object of the started relay, with its broadcast function, and
\* the listener's call of broadcast went through to the relay's registry.
C27_HandlerHoldsRelayExports ==
    (lastRun.listener \in Streams \cup {"error"} /\ wsStarted) =>
        /\ wsServer = RelayExports
        /\ lastRun.called
        /\ lastRun.registry = clients

\* C26: the status is 'completed' only through the timer of a submission
\* whose call of /api/download has not failed: once a submission's call has
\* failed, its timer does not set the status to 'completed'.
C26_ErrorNotOverridden ==
    home.status = "completed" => ~home.subs[home.completedBy].failed

\* C28: when the modal is opened its draft equals the page's settings, and a
\* Save pressed without an edit since the modal was opened leaves the page's
\* settings as they were.
C28_DraftIsCurrentSettings ==
    /\ [][ (~home.showSettings /\ home'.showSettings)
              => modal'.settings = home'.settings ]_vars
    /\ [][ (modal.isSaving /\ ~modal'.isSaving /\ ~modal.touched)
              => home'.settings = home.settings ]_vars

\* After a completeDownload the status is 'completed' or 'error' as the call
\* said, and the last log entry is the matching entry.
CompletedAsTold ==
    store.lastOp.op = "completeDownload" =>
        LET p == store.downloadProgress
            e == store.logs[Len(store.logs)]
        IN  /\ p.defined
            /\ p.status = (IF store.lastOp.success THEN "completed" ELSE "error")
            /\ Len(store.logs) > 0
            /\ e.level = (IF store.lastOp.success THEN "success" ELSE "error")
            /\ e.message = (IF store.lastOp.success THEN "Download completed successfully"
                            ELSE ErrorText(store.lastOp.error))

\* C29 as stated: after any sequence of the store's operations isDownloading
\* is true exactly when a startDownload has run with no completeDownload after
\* it, and a completeDownload leaves the status and the last log entry it was
\* told to.
C29_DownloadingIffStarted ==
    /\ store.isDownloading <=> store.running
    /\ CompletedAsTold

\* C29 amended: the same, for the sequences in which setDownloading has not
\* been called.
C29_DownloadingIffStartedNoSetter ==
    /\ ~store.setterUsed => (store.isDownloading <=> store.running)
    /\ CompletedAsTold

C29_Witness ==
    /\ store.lastOp.op = "completeDownload"
    /\ ~store.lastOp.success
    /\ store.lastOp.error = ""
    /\ store.added = 1
    /\ ~store.setterUsed
    /\ ~store.isDownloading
    /\ store.downloadProgress.status = "error"
    /\ store.downloadProgress.stage = "Download failed"
    /\ store.downloadProgress.percentage = Undefined

\* C30: the list holds at most 100 entries, they are the latest additions in
\* the order they were added (consecutive, up to the last one added), and an
\* addition to a list of 100 drops the oldest entry and nothing else.
C30_LastHundredInOrder ==
    /\ [](/\ Len(store.logs) <= LogLimit
          /\ \A i \in 1..(Len(store.logs) - 1) :
                 store.logs[i + 1].id = store.logs[i].id + 1
          /\ store.logs # <<>> => store.logs[Len(store.logs)].id = store.added)
    /\ [][ store'.lastOp.op \in {"addLog", "completeDownload"} =>
              /\ Len(store'.logs) > 0
              /\ store'.logs[Len(store'.logs)].id = store.added + 1
              /\ SubSeq(store'.logs, 1, Len(store'.logs) - 1) =
                     (IF Len(store.logs) = LogLimit THEN Tail(store.logs)
                      ELSE store.logs) ]_vars

C30_Witness ==
    /\ store.lastOp.op = "addLog"
    /\ Len(store.logs) = LogLimit
    /\ store.logs[1].id = 3
    /\ store.added = LogLimit + 2

====
